---- MODULE Spec2Model ----
(***************************************************************************)
(* The Pomodoro timer engine of gotrack                                    *)
(* (internal/tracker/pomodoro/pomodoro.go) as a state machine.             *)
(*                                                                         *)
(* Every section of code that runs between p.mu.Lock() and p.mu.Unlock()   *)
(* is one action.  What runs outside the lock (the callbacks, the call of  *)
(* startTicker, the return) is a separate action, so that the control      *)
(* thread and the tick goroutines interleave exactly where the lock is     *)
(* free.  The three accessors State(), Remaining() and Cycles() read one   *)
(* field under the lock: what they return in a state is the value of the   *)
(* variable state, remaining or cycles in that state.                      *)
(*                                                                         *)
(* Durations are counted in units of half a tick period (50ms): the tick   *)
(* period of 100ms is Tick = 2 units, so that a configured duration can be *)
(* a multiple of the tick period or not.                                   *)
(*                                                                         *)
(* A time.Ticker delivers no tick after its Stop() has returned; a tick    *)
(* that was received before the Stop() stays with the goroutine that       *)
(* received it.                                                            *)
(*                                                                         *)
(* The tick goroutines that have not returned are kept as a bag of their   *)
(* local states: two goroutines in the same local state are                *)
(* interchangeable.  A goroutine is held when its ticker and quit channel  *)
(* are the ones p.ticker and p.tickerQuit point to.                        *)
(*                                                                         *)
(* startTicker unlocks (165) before its go statement evaluates p.ticker    *)
(* and p.tickerQuit as the arguments of the goroutine (200).  The locked   *)
(* section and the go statement are two actions; the go statement reads    *)
(* the two fields as it finds them, without the lock.                      *)
(***************************************************************************)
EXTENDS Integers, FiniteSets, Sequences, Bags, TLC

\* ---------------------------------------------------------------- bounds
MaxDur == 4          \* longest configured work duration, in units
MaxInterval == 2     \* largest configured LongBreakInterval
MaxCycles == 2       \* ticks are no longer delivered once cycles reaches this
MaxG == 2            \* tick goroutines that exist at the same time
MaxOverrun == 1      \* ticks are no longer delivered once the remaining time
                     \* is this many tick periods below zero
MaxNow == 3          \* latest reading of the wall clock
MaxLog == 4          \* Start and Finish are not called on a longer log
MaxSaves == 2        \* direct calls of Save are not made on a longer file
MaxSessions == 3     \* longest list handed to an analytics function
MaxDay == 3          \* the sessions of such a list start on day 0..MaxDay

\* ------------------------------------------------------------- constants
Tick == 2            \* 100 * time.Millisecond

StateIdle == "Idle"
StateWorking == "Working"
StateShortBreak == "ShortBreak"
StateLongBreak == "LongBreak"
StatePaused == "Paused"

State == {StateIdle, StateWorking, StateShortBreak, StateLongBreak, StatePaused}

\* p.state == StateWorking || p.state == StateShortBreak || p.state == StateLongBreak
Active(s) == s = StateWorking \/ s = StateShortBreak \/ s = StateLongBreak

Nil == 0
Made == 1            \* a ticker or channel made by startTicker (162-163)
CtlThreads == {1}

\* config.PomodoroConfig: all durations > 0, LongBreakInterval >= 1
PomodoroConfig ==
  [WorkDuration : (MaxDur - 1)..MaxDur,
   BreakDuration : {Tick},
   LongBreak : {Tick + 1},
   LongBreakInterval : 1..MaxInterval,
   AutoStartBreak : BOOLEAN]

VARIABLES
  config,        \* p.config
  state,         \* p.state
  remaining,     \* p.remaining
  cycles,        \* p.cycles
  workSessions,  \* p.workSessions
  ticker,        \* p.ticker: Nil or Made
  tickerQuit,    \* p.tickerQuit: Nil or Made
  gor,           \* the tick goroutines that have not returned: a bag of
                 \* records, each with its position (pc), its localTicker
                 \* (tstopped), its quit channel (qclosed), its locals
                 \* (sc, ns, as) and whether its ticker and channel are the
                 \* ones p.ticker and p.tickerQuit point to (held)
  ctl,           \* the control threads: position in Start/Pause/Stop
  notified,      \* the phase of the last call of onStateChange
  panicked,      \* close of a closed channel
  mu,            \* p.mu: whether it is locked
  pausedAt,      \* history: remaining time at the last committed Pause,
                 \* until the Start() or Stop() that follows it has returned
  pausedFrom,    \* history: the phase that this Pause suspended
  ticked,        \* history: a tick was processed since that Pause
  file,          \* the lines of the storage file of FileStorage
  now,           \* the wall clock that time.Now() reads
  sm,            \* the callers of the SessionManager: position and result
  saved,         \* history: the sessions that Save has written, in order
  res,           \* the result of the last query, or of the last direct
                 \* call of the FileStorage
  cmd,           \* the pomodoro command: position, calls made, last poll
  ana            \* the last call of an analytics function: input and result

engineVars == <<config, state, remaining, cycles, workSessions, ticker,
                tickerQuit, gor, ctl, notified, panicked, mu, pausedAt,
                pausedFrom, ticked>>

logVars == <<file, now, sm, saved, res>>

vars == <<config, state, remaining, cycles, workSessions, ticker, tickerQuit,
          gor, ctl, notified, panicked, mu, pausedAt, pausedFrom, ticked,
          file, now, sm, saved, res, cmd, ana>>

NoRem == -100

\* ------------------------------------- models.Session and the empty log
\* the zero time.Time; time.Now() never returns it
ZeroTime == 0

\* the zero Session, standing also for "no session returned"
NoSession == [Task |-> "", StartTime |-> ZeroTime, EndTime |-> ZeroTime]

\* a nil *Session
NilSession == [nil |-> TRUE]

SmCallers == {1}

NoResult == [op |-> "none", err |-> "none", out |-> <<>>]

SmIdle == [pc |-> "idle", session |-> NoSession, err |-> FALSE]

\* the pomodoro command before it is run
CmdInit ==
  cmd = [pc |-> "smStart", starts |-> 0, stops |-> 0, finishes |-> 0,
         seen |-> "none"]

\* no analytics function was called
AnaInit == ana = [fn |-> "none", in |-> <<>>, zone |-> 0, out |-> 0]

\* NewFileStorage on a new path and NewSessionManager: an empty file
LogInit ==
  /\ file = <<>>
  /\ now = 1
  /\ sm = [c \in SmCallers |-> SmIdle]
  /\ saved = <<>>
  /\ res = NoResult

\* ------------------------------------------------------------ New (44-52)
CtlIdle == [pc |-> "idle", err |-> FALSE, newState |-> StateIdle]

\* an engine created with no remaining time
InitZeroRemaining ==
  /\ config \in PomodoroConfig
  /\ state = StateIdle
  /\ remaining = 0
  /\ cycles = 0
  /\ workSessions = 0
  /\ ticker = Nil
  /\ tickerQuit = Nil
  /\ gor = EmptyBag
  /\ ctl = [t \in CtlThreads |-> CtlIdle]
  /\ notified = "none"
  /\ panicked = FALSE
  /\ mu = FALSE
  /\ pausedAt = NoRem
  /\ pausedFrom = "none"
  /\ ticked = FALSE
  /\ LogInit
  /\ CmdInit
  /\ AnaInit

Init ==
  /\ config \in PomodoroConfig
  /\ state = StateIdle
  /\ remaining = config.WorkDuration
  /\ cycles = 0
  /\ workSessions = 0
  /\ ticker = Nil
  /\ tickerQuit = Nil
  /\ gor = EmptyBag
  /\ ctl = [t \in CtlThreads |-> CtlIdle]
  /\ notified = "none"
  /\ panicked = FALSE
  /\ mu = FALSE
  /\ pausedAt = NoRem
  /\ pausedFrom = "none"
  /\ ticked = FALSE
  /\ LogInit
  /\ CmdInit
  /\ AnaInit

\* ------------------------------------------------- tickers and channels
Put(G, r) == G (+) SetToBag({r})
Take(G, r) == G (-) SetToBag({r})
Swap(G, r, r2) == Put(Take(G, r), r2)

\* the goroutines whose ticker and channel p.ticker and p.tickerQuit point to
Held(G) == {r \in BagToSet(G) : r.held}

\* localTicker.Stop() on p.ticker when it is not nil (97-99)
Stopped(r, t) ==
  IF r.held /\ t # Nil THEN [r EXCEPT !.tstopped = TRUE] ELSE r

\* the copies in G of the records of the set S
RECURSIVE CopiesOf(_, _)
CopiesOf(G, S) ==
  IF S = {} THEN 0
  ELSE LET r == CHOOSE r \in S : TRUE IN G[r] + CopiesOf(G, S \ {r})

StopTicker(G, t) ==
  LET S == {Stopped(r, t) : r \in BagToSet(G)}
  IN [x \in S |-> CopiesOf(G, {r \in BagToSet(G) : Stopped(r, t) = x})]

\* Stop() on p.ticker and close of p.tickerQuit when they are not nil, after
\* which the two fields point elsewhere (112-119, 154-163, 206-213)
Retired(r, t, q) ==
  IF r.held
    THEN [r EXCEPT !.tstopped = (@ \/ t # Nil), !.qclosed = (@ \/ q # Nil),
                   !.held = FALSE]
    ELSE r

Retire(G, t, q) ==
  LET S == {Retired(r, t, q) : r \in BagToSet(G)}
  IN [x \in S |-> CopiesOf(G, {r \in BagToSet(G) : Retired(r, t, q) = x})]

\* close of a channel that is closed already panics; the channel of a
\* goroutine that has returned is closed
ClosePanics(G, q) ==
  q # Nil /\ (Held(G) = {} \/ \E r \in Held(G) : r.qclosed)

\* 196-197: a goroutine whose select finds quit closed returns.  Its ticker
\* was stopped before quit was closed, so the select has no other case to
\* take, and the return touches nothing of the engine: the goroutine is gone
\* from the step on that leaves it at the select with quit closed.
Returned(G) == {r \in BagToSet(G) : r.pc = "select" /\ r.qclosed}

\* a ticker and a channel that were replaced or dropped before a goroutine
\* was started for them: nothing refers to them any more
Dropped(G) == {r \in BagToSet(G) : r.pc = "go" /\ ~r.held}

Reap(G) == [r \in BagToSet(G) \ (Returned(G) \cup Dropped(G)) |-> G[r]]

NewGoroutine ==
  [pc |-> "select", tstopped |-> FALSE, qclosed |-> FALSE, rem |-> NoRem,
   sc |-> FALSE, ns |-> StateIdle, as |-> FALSE, held |-> TRUE]

\* 162-163: the ticker and the channel that startTicker has made, before
\* the go statement
Pending == [NewGoroutine EXCEPT !.pc = "go"]

\* the goroutine whose select evaluates localTicker.C on a nil localTicker
NilTicker ==
  [NewGoroutine EXCEPT !.pc = "nilTicker", !.tstopped = TRUE,
                       !.qclosed = TRUE, !.held = FALSE]

\* a section that does not unlock at its end
WithLockKept == ~mu /\ mu' = TRUE

\* p.mu.Lock() ... p.mu.Unlock(): the section between them is one step
WithLock == ~mu /\ mu' = FALSE

\* State(), Remaining(), Cycles() (131-150): lock, read one field, unlock
Accessor == WithLock

\* onStateChange(newState), with a callback that queries the engine
Notify(s) == notified' = s /\ Accessor

\* onTick(remaining), with a callback that queries the engine
OnTick(v) == Accessor

\* the locked section of startTicker (153-165): retire the previous ticker
\* and quit channel and make new ones.  G is gor with the caller's own
\* change already applied.
StartTickerBody(G) ==
  LET G1 == Reap(Retire(G, ticker, tickerQuit))
  IN /\ BagCardinality(gor) < MaxG
     /\ gor' = Put(G1, Pending)
     /\ ticker' = Made
     /\ tickerQuit' = Made
     /\ panicked' = (panicked \/ ClosePanics(G, tickerQuit))
     /\ WithLock

\* the go statement of startTicker (167-200), after the unlock of 165: it
\* reads p.ticker and p.tickerQuit without the lock and starts the goroutine
\* with what it read.
\*   - The fields hold a ticker and a channel for which no goroutine was
\*     started yet, those of this call or of a later one: that goroutine is
\*     started.
\*   - They hold a ticker and a channel whose goroutine is running: a second
\*     goroutine is started on the same ticker and channel.
\*   - A Stop() or a completion has retired the ticker and the channel of
\*     this call and left the fields nil.  A read that sees the nil ticker
\*     starts a goroutine whose select (170) dereferences it: the process
\*     panics.  A read that still sees the retired ticker, because it ran
\*     inside the other locked section or because the unsynchronised read
\*     returned the earlier write, starts a goroutine on a stopped ticker: it
\*     processes no tick and is not kept in gor.
\* G is gor with the caller's own change already applied.
GoStatement(G) ==
  IF ticker = Nil
    THEN \/ /\ gor' = Put(G, NilTicker)
            /\ panicked' = TRUE
         \/ /\ gor' = G
            /\ panicked' = panicked
    ELSE /\ panicked' = panicked
         /\ IF \E r \in Held(G) : r.pc = "go"
              THEN LET p == CHOOSE r \in Held(G) : r.pc = "go"
                   IN gor' = Swap(G, p, [p EXCEPT !.pc = "select"])
              ELSE LET h == CHOOSE r \in Held(G) : TRUE
                   IN /\ BagCardinality(G) < MaxG
                      /\ gor' = Put(G, [NewGoroutine EXCEPT
                                          !.tstopped = h.tstopped])

\* ------------------------------------------------------- control thread
\* a Start that refuses only during the work phase
StartRejectsWorkingOnly(s) == s = StateWorking

\* 68: Start refuses
StartRejects(s) == Active(s)

\* a Start that keeps the remaining time it finds
StartRemainingKept(s, r, cfg) == r

\* 75-77: the remaining time is reset unless the phase is Paused
StartRemaining(s, r, cfg) == IF s = StatePaused THEN r ELSE cfg.WorkDuration

\* Start is called; 66-80: the check of the phase and the transition, under
\* the lock.  err is the error of the last Start() that has returned.
StartLock(t) ==
  /\ ~panicked
  /\ WithLock
  /\ ctl[t].pc = "idle"
  /\ IF StartRejects(state)
       THEN /\ ctl' = [ctl EXCEPT ![t] = [pc |-> "idle", err |-> TRUE,
                                          newState |-> StateIdle]]
            /\ UNCHANGED <<state, remaining>>
       ELSE /\ remaining' = StartRemaining(state, remaining, config)
            /\ state' = StateWorking
            /\ ctl' = [ctl EXCEPT ![t] = [pc |-> "StartCb", err |-> FALSE,
                                          newState |-> StateWorking]]
  /\ UNCHANGED <<config, cycles, workSessions, ticker, tickerQuit, gor,
                 notified, panicked, pausedAt, pausedFrom, ticked>>

\* Start, 81-83: the callback, outside the lock
StartCb(t) ==
  /\ ~panicked
  /\ ctl[t].pc = "StartCb"
  /\ Notify(ctl[t].newState)
  /\ ctl' = [ctl EXCEPT ![t].pc = "StartTicker"]
  /\ UNCHANGED <<config, state, remaining, cycles, workSessions, ticker,
                 tickerQuit, gor, panicked, pausedAt, pausedFrom, ticked>>

\* Start, 84: startTicker(), its locked section (153-165)
StartTicker(t) ==
  /\ ~panicked
  /\ ctl[t].pc = "StartTicker"
  /\ StartTickerBody(gor)
  /\ ctl' = [ctl EXCEPT ![t].pc = "StartGo"]
  /\ UNCHANGED <<config, state, remaining, cycles, workSessions, notified,
                 pausedAt, pausedFrom, ticked>>

\* Start, 84-86: the go statement of startTicker (167-200) and the return
StartGo(t) ==
  /\ ~panicked
  /\ ctl[t].pc = "StartGo"
  /\ GoStatement(gor)
  /\ ctl' = [ctl EXCEPT ![t] = CtlIdle]
  /\ pausedAt' = NoRem
  /\ pausedFrom' = "none"
  /\ ticked' = FALSE
  /\ UNCHANGED <<config, state, remaining, cycles, workSessions, ticker,
                 tickerQuit, notified, mu>>

\* a Pause that is ignored in Idle only
PauseIgnoredIdleOnly(s) == s = StateIdle

\* 92-95: Pause returns at once
PauseIgnored(s) == ~Active(s)

\* Pause is called; 91-103
PauseLock(t) ==
  /\ ~panicked
  /\ WithLock
  /\ ctl[t].pc = "idle"
  /\ IF PauseIgnored(state)
       THEN /\ ctl' = [ctl EXCEPT ![t] = CtlIdle]
            /\ UNCHANGED <<state, gor, pausedAt, pausedFrom, ticked>>
       ELSE /\ gor' = StopTicker(gor, ticker)
            /\ state' = StatePaused
            /\ ctl' = [ctl EXCEPT ![t] = [pc |-> "PauseCb", err |-> FALSE,
                                          newState |-> StatePaused]]
            /\ pausedAt' = remaining
            /\ pausedFrom' = state
            /\ ticked' = FALSE
  /\ UNCHANGED <<config, remaining, cycles, workSessions, ticker, tickerQuit,
                 notified, panicked>>

\* Pause, 104-106
PauseCb(t) ==
  /\ ~panicked
  /\ ctl[t].pc = "PauseCb"
  /\ Notify(ctl[t].newState)
  /\ ctl' = [ctl EXCEPT ![t] = CtlIdle]
  /\ UNCHANGED <<config, state, remaining, cycles, workSessions, ticker,
                 tickerQuit, gor, panicked, pausedAt, pausedFrom, ticked>>

\* a Stop that resets cycles and leaves workSessions as it is
StopLockKeepsSessions(t) ==
  /\ ~panicked
  /\ WithLock
  /\ ctl[t].pc = "idle"
  /\ gor' = Reap(Retire(gor, ticker, tickerQuit))
  /\ panicked' = ClosePanics(gor, tickerQuit)
  /\ ticker' = Nil
  /\ tickerQuit' = Nil
  /\ state' = StateIdle
  /\ cycles' = 0
  /\ ctl' = [ctl EXCEPT ![t] = [pc |-> "StopCb", err |-> FALSE,
                                newState |-> StateIdle]]
  /\ pausedAt' = NoRem
  /\ pausedFrom' = "none"
  /\ ticked' = FALSE
  /\ UNCHANGED <<config, remaining, notified, workSessions>>

\* a Stop that resets workSessions and leaves cycles as it is
StopLockKeepsCycles(t) ==
  /\ ~panicked
  /\ WithLock
  /\ ctl[t].pc = "idle"
  /\ gor' = Reap(Retire(gor, ticker, tickerQuit))
  /\ panicked' = ClosePanics(gor, tickerQuit)
  /\ ticker' = Nil
  /\ tickerQuit' = Nil
  /\ state' = StateIdle
  /\ workSessions' = 0
  /\ ctl' = [ctl EXCEPT ![t] = [pc |-> "StopCb", err |-> FALSE,
                                newState |-> StateIdle]]
  /\ pausedAt' = NoRem
  /\ pausedFrom' = "none"
  /\ ticked' = FALSE
  /\ UNCHANGED <<cycles, config, remaining, notified>>

\* Stop is called; 111-125
StopLock(t) ==
  /\ ~panicked
  /\ WithLock
  /\ ctl[t].pc = "idle"
  /\ gor' = Reap(Retire(gor, ticker, tickerQuit))
  /\ panicked' = ClosePanics(gor, tickerQuit)
  /\ ticker' = Nil
  /\ tickerQuit' = Nil
  /\ state' = StateIdle
  /\ cycles' = 0
  /\ workSessions' = 0
  /\ ctl' = [ctl EXCEPT ![t] = [pc |-> "StopCb", err |-> FALSE,
                                newState |-> StateIdle]]
  /\ pausedAt' = NoRem
  /\ pausedFrom' = "none"
  /\ ticked' = FALSE
  /\ UNCHANGED <<config, remaining, notified>>

\* Stop, 126-128
StopCb(t) ==
  /\ ~panicked
  /\ ctl[t].pc = "StopCb"
  /\ Notify(ctl[t].newState)
  /\ ctl' = [ctl EXCEPT ![t] = CtlIdle]
  /\ UNCHANGED <<config, state, remaining, cycles, workSessions, ticker,
                 tickerQuit, gor, panicked, pausedAt, pausedFrom, ticked>>

\* ------------------------------------------------------- tick goroutine
\* 169-170: the select receives a tick from localTicker.C
GRecv(r) ==
  /\ ~panicked
  /\ r \in BagToSet(gor)
  /\ r.pc = "select"
  /\ ~r.tstopped
  /\ cycles < MaxCycles
  /\ remaining + Tick * MaxOverrun > 0
  /\ gor' = Swap(gor, r, [r EXCEPT !.pc = "lock"])
  /\ UNCHANGED <<config, state, remaining, cycles, workSessions, ticker,
                 tickerQuit, ctl, notified, panicked, mu, pausedAt, pausedFrom,
                 ticked>>

\* 180-182
ShouldContinue(s, cfg) ==
  \/ s = StateWorking
  \/ (s = StateShortBreak /\ cfg.AutoStartBreak)
  \/ (s = StateLongBreak /\ cfg.AutoStartBreak)

\* a tick that is ignored in Idle only
TickIgnoredIdleOnly(s) == s = StateIdle

\* 172-175: the tick is ignored
TickIgnored(s) == ~Active(s)

\* a terminal tick that goes on to the completion without the tick callback
GTickSkipsTerminalCallback(r) ==
  /\ ~panicked
  /\ WithLock
  /\ r \in BagToSet(gor)
  /\ r.pc = "lock"
  /\ IF TickIgnored(state)
       THEN /\ gor' = Reap(Swap(gor, r, [r EXCEPT !.pc = "select"]))
            /\ UNCHANGED <<remaining, ticked>>
       ELSE /\ remaining' = remaining - Tick
            /\ gor' = Swap(gor, r,
                        [r EXCEPT
                           !.pc = IF remaining - Tick <= 0 THEN "complete"
                                  ELSE "onTick",
                           !.rem = IF remaining - Tick <= 0 THEN NoRem
                                   ELSE remaining - Tick,
                           !.sc = IF remaining - Tick <= 0
                                    THEN ShouldContinue(state, config)
                                    ELSE FALSE])
            /\ ticked' = (pausedAt # NoRem)
  /\ UNCHANGED <<config, state, cycles, workSessions, ticker, tickerQuit,
                 ctl, notified, panicked, pausedAt, pausedFrom>>

\* 171-184: the tick under the lock; rem is the local copy of p.remaining
GTick(r) ==
  /\ ~panicked
  /\ WithLock
  /\ r \in BagToSet(gor)
  /\ r.pc = "lock"
  /\ IF TickIgnored(state)
       THEN /\ gor' = Reap(Swap(gor, r, [r EXCEPT !.pc = "select"]))
            /\ UNCHANGED <<remaining, ticked>>
       ELSE /\ remaining' = remaining - Tick
            /\ gor' = Swap(gor, r,
                        [r EXCEPT
                           !.pc = "onTick",
                           !.rem = remaining - Tick,
                           !.sc = IF remaining - Tick <= 0
                                    THEN ShouldContinue(state, config)
                                    ELSE FALSE])
            /\ ticked' = (pausedAt # NoRem)
  /\ UNCHANGED <<config, state, cycles, workSessions, ticker, tickerQuit,
                 ctl, notified, panicked, pausedAt, pausedFrom>>

\* 186-190: with the lock released, the tick callback, then the test of the
\* copied remaining time
GOnTick(r) ==
  /\ ~panicked
  /\ r \in BagToSet(gor)
  /\ r.pc = "onTick"
  /\ OnTick(r.rem)
  /\ gor' = Reap(Swap(gor, r,
              [r EXCEPT !.pc = IF r.rem <= 0 THEN "complete" ELSE "select",
                        !.rem = NoRem]))
  /\ UNCHANGED <<config, state, remaining, cycles, workSessions, ticker,
                 tickerQuit, ctl, notified, panicked, pausedAt, pausedFrom,
                 ticked>>

\* the test of 220 made on the count before its increment
BreakAfterBeforeIncrement(n, cfg) ==
  IF n - 1 > 0 /\ (n - 1) % cfg.LongBreakInterval = 0 THEN StateLongBreak
  ELSE StateShortBreak

\* a completion of the work phase that ends the run
BreakAfterIsIdle(n, cfg) == StateIdle

\* 220: the break that follows the n-th work session
BreakAfter(n, cfg) ==
  IF n > 0 /\ n % cfg.LongBreakInterval = 0 THEN StateLongBreak
  ELSE StateShortBreak

\* every break given the short break's duration
DurationOfShortOnly(s, cfg) ==
  CASE s = StateLongBreak -> cfg.BreakDuration
    [] s = StateShortBreak -> cfg.BreakDuration
    [] OTHER -> cfg.WorkDuration

\* 221, 224, 229
DurationOf(s, cfg) ==
  CASE s = StateLongBreak -> cfg.LongBreak
    [] s = StateShortBreak -> cfg.BreakDuration
    [] OTHER -> cfg.WorkDuration

\* a completion that never starts the next phase's ticker
AutoStartNever(s, cfg) == FALSE

\* 234
AutoStart(s, cfg) == cfg.AutoStartBreak \/ s = StateWorking

\* completeSession, 205-235: under the lock
GComplete(r) ==
  /\ ~panicked
  /\ WithLock
  /\ r \in BagToSet(gor)
  /\ r.pc = "complete"
  /\ panicked' = ClosePanics(gor, tickerQuit)
  /\ ticker' = Nil
  /\ tickerQuit' = Nil
  /\ LET ns == CASE state = StateWorking -> BreakAfter(workSessions + 1, config)
                 [] state \in {StateShortBreak, StateLongBreak} -> StateWorking
                 [] OTHER -> state
         me == [Retired(r, ticker, tickerQuit) EXCEPT
                  !.pc = "csCb", !.ns = ns, !.as = AutoStart(ns, config)]
     IN /\ state' = ns
        /\ workSessions' = IF state = StateWorking THEN workSessions + 1
                           ELSE workSessions
        /\ cycles' = IF state = StateWorking THEN cycles + 1 ELSE cycles
        /\ remaining' = IF Active(state) THEN DurationOf(ns, config)
                        ELSE remaining
        /\ gor' = Reap(Put(Retire(Take(gor, r), ticker, tickerQuit), me))
  /\ UNCHANGED <<config, ctl, notified, pausedAt, pausedFrom, ticked>>

\* the goroutine after completeSession has returned (192-194): it returns,
\* or goes round the loop
AfterComplete(G, r) ==
  IF r.sc
    THEN Reap(Swap(G, r, [r EXCEPT !.pc = "select", !.sc = FALSE,
                                   !.ns = StateIdle, !.as = FALSE]))
    ELSE Take(G, r)

\* completeSession, 237-241: the callback, outside the lock
GCsCb(r) ==
  /\ ~panicked
  /\ r \in BagToSet(gor)
  /\ r.pc = "csCb"
  /\ Notify(r.ns)
  /\ gor' = IF r.as THEN Swap(gor, r, [r EXCEPT !.pc = "csTicker",
                                                  !.ns = StateIdle])
            ELSE AfterComplete(gor, r)
  /\ UNCHANGED <<config, state, remaining, cycles, workSessions, ticker,
                 tickerQuit, ctl, panicked, pausedAt, pausedFrom, ticked>>

\* completeSession, 242: startTicker(), its locked section (153-165)
GCsTicker(r) ==
  /\ ~panicked
  /\ r \in BagToSet(gor)
  /\ r.pc = "csTicker"
  /\ StartTickerBody(Swap(gor, r, [r EXCEPT !.pc = "csGo"]))
  /\ UNCHANGED <<config, state, remaining, cycles, workSessions, ctl,
                 notified, pausedAt, pausedFrom, ticked>>

\* completeSession, 242: the go statement of startTicker (167-200), then
\* 192-194
GCsGo(r) ==
  /\ ~panicked
  /\ r \in BagToSet(gor)
  /\ r.pc = "csGo"
  /\ GoStatement(AfterComplete(gor, r))
  /\ UNCHANGED <<config, state, remaining, cycles, workSessions, ticker,
                 tickerQuit, ctl, notified, mu, pausedAt, pausedFrom, ticked>>

Next ==
  \/ \E t \in CtlThreads : StartLock(t) /\ UNCHANGED <<logVars, cmd, ana>>
  \/ \E t \in CtlThreads : StartCb(t) /\ UNCHANGED <<logVars, cmd, ana>>
  \/ \E t \in CtlThreads : StartTicker(t) /\ UNCHANGED <<logVars, cmd, ana>>
  \/ \E t \in CtlThreads : StartGo(t) /\ UNCHANGED <<logVars, cmd, ana>>
  \/ \E t \in CtlThreads : PauseLock(t) /\ UNCHANGED <<logVars, cmd, ana>>
  \/ \E t \in CtlThreads : PauseCb(t) /\ UNCHANGED <<logVars, cmd, ana>>
  \/ \E t \in CtlThreads : StopLock(t) /\ UNCHANGED <<logVars, cmd, ana>>
  \/ \E t \in CtlThreads : StopCb(t) /\ UNCHANGED <<logVars, cmd, ana>>
  \/ \E r \in BagToSet(gor) : GRecv(r) /\ UNCHANGED <<logVars, cmd, ana>>
  \/ \E r \in BagToSet(gor) : GTick(r) /\ UNCHANGED <<logVars, cmd, ana>>
  \/ \E r \in BagToSet(gor) : GOnTick(r) /\ UNCHANGED <<logVars, cmd, ana>>
  \/ \E r \in BagToSet(gor) : GComplete(r) /\ UNCHANGED <<logVars, cmd, ana>>
  \/ \E r \in BagToSet(gor) : GCsCb(r) /\ UNCHANGED <<logVars, cmd, ana>>
  \/ \E r \in BagToSet(gor) : GCsTicker(r) /\ UNCHANGED <<logVars, cmd, ana>>
  \/ \E r \in BagToSet(gor) : GCsGo(r) /\ UNCHANGED <<logVars, cmd, ana>>

Spec == Init /\ [][Next]_vars

\* ------------------------------------------- two callers of Start()
\* The engine with two threads: the owner (1) calls Start, Pause and Stop,
\* the second thread (2) calls Start only, at any time; the owner calls
\* Pause or Stop only while no Start() of the second thread is in progress.
Owner == 1
Second == 2

InitTwoStarts ==
  /\ config \in PomodoroConfig
  /\ state = StateIdle
  /\ remaining = config.WorkDuration
  /\ cycles = 0
  /\ workSessions = 0
  /\ ticker = Nil
  /\ tickerQuit = Nil
  /\ gor = EmptyBag
  /\ ctl = [t \in {Owner, Second} |-> CtlIdle]
  /\ notified = "none"
  /\ panicked = FALSE
  /\ mu = FALSE
  /\ pausedAt = NoRem
  /\ pausedFrom = "none"
  /\ ticked = FALSE
  /\ LogInit
  /\ CmdInit
  /\ AnaInit

NextTwoStarts ==
  \/ \E t \in {Owner, Second} : StartLock(t) /\ UNCHANGED <<logVars, cmd, ana>>
  \/ \E t \in {Owner, Second} : StartCb(t) /\ UNCHANGED <<logVars, cmd, ana>>
  \/ \E t \in {Owner, Second} : StartTicker(t) /\ UNCHANGED <<logVars, cmd, ana>>
  \/ \E t \in {Owner, Second} : StartGo(t) /\ UNCHANGED <<logVars, cmd, ana>>
  \/ (ctl[Second].pc = "idle" /\ PauseLock(Owner) /\ UNCHANGED <<logVars, cmd, ana>>)
  \/ (PauseCb(Owner) /\ UNCHANGED <<logVars, cmd, ana>>)
  \/ (ctl[Second].pc = "idle" /\ StopLock(Owner) /\ UNCHANGED <<logVars, cmd, ana>>)
  \/ (StopCb(Owner) /\ UNCHANGED <<logVars, cmd, ana>>)
  \/ \E r \in BagToSet(gor) : GRecv(r) /\ UNCHANGED <<logVars, cmd, ana>>
  \/ \E r \in BagToSet(gor) : GTick(r) /\ UNCHANGED <<logVars, cmd, ana>>
  \/ \E r \in BagToSet(gor) : GOnTick(r) /\ UNCHANGED <<logVars, cmd, ana>>
  \/ \E r \in BagToSet(gor) : GComplete(r) /\ UNCHANGED <<logVars, cmd, ana>>
  \/ \E r \in BagToSet(gor) : GCsCb(r) /\ UNCHANGED <<logVars, cmd, ana>>
  \/ \E r \in BagToSet(gor) : GCsTicker(r) /\ UNCHANGED <<logVars, cmd, ana>>
  \/ \E r \in BagToSet(gor) : GCsGo(r) /\ UNCHANGED <<logVars, cmd, ana>>

SpecTwoStarts == InitTwoStarts /\ [][NextTwoStarts]_vars

\* ------------------------------------- FileStorage (file_storage.go)
Tasks == {"a", "b"}

\* a label that is not valid UTF-8, and what json.Marshal writes for it:
\* every invalid byte becomes the replacement rune U+FFFD
BadUTF8 == "a<ff>"
Replaced == "a<fffd>"

\* a label longer than bufio.MaxScanTokenSize, 64 KiB
LongTask == "x<65536 times>"

\* the labels a caller can pass: the command line hands over args[0] as is
Labels == Tasks \cup {BadUTF8, LongTask}

\* 64: the string encoding of json.Marshal
ToValidUTF8(t) == IF t = BadUTF8 THEN Replaced ELSE t

\* 64: json.Marshal of a Session, one line of the file
Marshal(s) ==
  [task |-> ToValidUTF8(s.Task), start_time |-> s.StartTime,
   end_time |-> s.EndTime]

\* 108-109: the line does not fit the buffer of bufio.Scanner
TooLong(l) == l.task = LongTask

\* 110-111: json.Unmarshal of one line
Unmarshal(l) ==
  [Task |-> l.task, StartTime |-> l.start_time, EndTime |-> l.end_time]

\* 109, 117-119: Scan stops at a line that is too long and GetAll returns
\* the error of the scanner
GetAllErr(f) == \E i \in 1..Len(f) : TooLong(f[i])

\* 97-122: every line of the file, in the order of the file; no session
\* when the scanner failed
GetAll(f) ==
  IF GetAllErr(f) THEN <<>> ELSE [i \in 1..Len(f) |-> Unmarshal(f[i])]

\* a Save that does not look at the start time
SaveRejectsNoStartCheck(s) == s = NilSession \/ s.Task = ""

\* 53-62: Save returns an error before it writes
SaveRejects(s) == s = NilSession \/ s.Task = "" \/ s.StartTime = ZeroTime

\* 52-80: Save opens the file with O_APPEND and writes one line
Save(f, s) == IF SaveRejects(s) THEN f ELSE Append(f, Marshal(s))

\* the sessions written so far, after Save(s)
Saved(h, s) == IF SaveRejects(s) THEN h ELSE Append(h, s)

\* 82-94: GetLast
GetLast(f) ==
  IF GetAllErr(f) THEN [op |-> "GetLast", err |-> "error", out |-> <<>>]
  ELSE IF Len(GetAll(f)) = 0
         THEN [op |-> "GetLast", err |-> "ErrNoSessions", out |-> <<>>]
         ELSE [op |-> "GetLast", err |-> "none",
               out |-> <<GetAll(f)[Len(GetAll(f))]>>]

\* the sessions a caller of the storage can pass to Save
SaveInputs ==
  [Task : Labels \cup {""}, StartTime : 0..MaxNow,
   EndTime : {ZeroTime, MaxNow}] \cup {NilSession}

\* Save is called on the storage
FsSave(s) ==
  /\ Len(file) < MaxSaves
  /\ file' = Save(file, s)
  /\ saved' = Saved(saved, s)
  /\ res' = [op |-> "Save",
             err |-> IF SaveRejects(s) THEN "error" ELSE "none",
             out |-> <<>>]
  /\ UNCHANGED <<now, sm>>

\* GetAll is called on the storage
FsGetAll ==
  /\ res' = [op |-> "GetAll",
             err |-> IF GetAllErr(file) THEN "error" ELSE "none",
             out |-> GetAll(file)]
  /\ UNCHANGED <<file, now, sm, saved>>

\* GetLast is called on the storage
FsGetLast ==
  /\ res' = GetLast(file)
  /\ UNCHANGED <<file, now, sm, saved>>

NextStorage ==
  \/ \E s \in SaveInputs : FsSave(s) /\ UNCHANGED <<engineVars, cmd, ana>>
  \/ (FsGetAll /\ UNCHANGED <<engineVars, cmd, ana>>)
  \/ (FsGetLast /\ UNCHANGED <<engineVars, cmd, ana>>)

\* the FileStorage on a new file
SpecStorage == Init /\ [][NextStorage]_vars

\* ------------------------------------------ SessionManager (25-75)
SmFailed == [pc |-> "idle", session |-> NoSession, err |-> TRUE]

\* time.Now() returns a later value
ClockAdvance ==
  /\ now < MaxNow
  /\ now' = now + 1
  /\ UNCHANGED <<file, sm, saved, res>>

\* 35: the last record of the log has no end time
LastOpen(all) == Len(all) > 0 /\ all[Len(all)].EndTime = ZeroTime

\* the wall clock is set back (time.Now() reads the wall clock, and the
\* times read from the file carry no monotonic reading)
ClockStepBack ==
  /\ now > 1
  /\ now' = now - 1
  /\ UNCHANGED <<file, sm, saved, res>>

\* 24 * time.Hour, in clock units
DayLen == 2

\* 89: time.Date(year, month, day, 0, 0, 0, 0, location) of a time
StartOfDay(t) == t - (t % DayLen)

\* 124-140: the sessions whose start is neither before start nor after end
GetByDateRange(f, start, end) ==
  LET InRange(x) == x.StartTime >= start /\ x.StartTime <= end
  IN SelectSeq(GetAll(f), InRange)

\* 87-98: GetTodaySessions is called
SmGetTodaySessions ==
  /\ \A c \in SmCallers : sm[c].pc = "idle"
  /\ LET startOfDay == StartOfDay(now)
         endOfDay == startOfDay + DayLen
     IN res' = [op |-> "GetTodaySessions",
                err |-> IF GetAllErr(file) THEN "error" ELSE "none",
                out |-> GetByDateRange(file, startOfDay, endOfDay)]
  /\ UNCHANGED <<file, now, sm, saved>>

\* Start is called; 26-42: the empty task is refused, GetLast reads the
\* file and its error is returned (31-33), an open last record is refused,
\* the new session is built
SmStart(c, task) ==
  /\ sm[c].pc = "idle"
  /\ Len(file) < MaxLog
  /\ LET all == GetAll(file)
     IN IF task = "" \/ GetAllErr(file)
          THEN sm' = [sm EXCEPT ![c] = SmFailed]
          ELSE IF LastOpen(all)
                 THEN sm' = [sm EXCEPT ![c] = SmFailed]
                 ELSE sm' = [sm EXCEPT ![c] =
                               [pc |-> "StartSave",
                                session |-> [Task |-> task,
                                             StartTime |-> now,
                                             EndTime |-> ZeroTime],
                                err |-> FALSE]]
  /\ UNCHANGED <<file, now, saved, res>>

\* 44-48: Save of the new session, and the return
SmStartSave(c) ==
  /\ sm[c].pc = "StartSave"
  /\ file' = Save(file, sm[c].session)
  /\ saved' = Saved(saved, sm[c].session)
  /\ sm' = [sm EXCEPT ![c] =
              IF SaveRejects(sm[c].session) THEN SmFailed
              ELSE [pc |-> "idle", session |-> sm[c].session, err |-> FALSE]]
  /\ UNCHANGED <<now, res>>

\* Finish is called; 53-67: GetAll reads the file and its error is
\* returned (54-56), the empty log and a closed last record are refused, the copy of the last record gets its end
SmFinish(c) ==
  /\ sm[c].pc = "idle"
  /\ Len(file) < MaxLog
  /\ LET sessions == GetAll(file)
     IN IF GetAllErr(file) \/ Len(sessions) = 0
          THEN sm' = [sm EXCEPT ![c] = SmFailed]
          ELSE IF sessions[Len(sessions)].EndTime # ZeroTime
                 THEN sm' = [sm EXCEPT ![c] = SmFailed]
                 ELSE sm' = [sm EXCEPT ![c] =
                               [pc |-> "FinishSave",
                                session |-> [sessions[Len(sessions)]
                                               EXCEPT !.EndTime = now],
                                err |-> FALSE]]
  /\ UNCHANGED <<file, now, saved, res>>

\* 69-74: Save of the finished copy, and the return
SmFinishSave(c) ==
  /\ sm[c].pc = "FinishSave"
  /\ file' = Save(file, sm[c].session)
  /\ saved' = Saved(saved, sm[c].session)
  /\ sm' = [sm EXCEPT ![c] =
              IF SaveRejects(sm[c].session) THEN SmFailed
              ELSE [pc |-> "idle", session |-> sm[c].session, err |-> FALSE]]
  /\ UNCHANGED <<now, res>>

NextLog ==
  \/ (ClockAdvance /\ UNCHANGED <<engineVars, cmd, ana>>)
  \/ (ClockStepBack /\ UNCHANGED <<engineVars, cmd, ana>>)
  \/ \E c \in SmCallers : \E task \in Labels \cup {""} :
       SmStart(c, task) /\ UNCHANGED <<engineVars, cmd, ana>>
  \/ \E c \in SmCallers : SmStartSave(c) /\ UNCHANGED <<engineVars, cmd, ana>>
  \/ \E c \in SmCallers : SmFinish(c) /\ UNCHANGED <<engineVars, cmd, ana>>
  \/ \E c \in SmCallers : SmFinishSave(c) /\ UNCHANGED <<engineVars, cmd, ana>>
  \/ (SmGetTodaySessions /\ UNCHANGED <<engineVars, cmd, ana>>)

\* the SessionManager on a new log file
SpecLog == Init /\ [][NextLog]_vars

\* ------------------------------------ pomoCmd.run (part_001, 58-122)
\* 83-85: sm.Start(taskName); the command returns when it fails
CmdSmStart(task) ==
  /\ cmd.pc = "smStart"
  /\ SmStart(Owner, task)
  /\ cmd' = [cmd EXCEPT !.pc = IF sm'[Owner].pc = "StartSave"
                                 THEN "smStartSave" ELSE "returned"]
  /\ UNCHANGED <<engineVars, ana>>

CmdSmStartSave ==
  /\ cmd.pc = "smStartSave"
  /\ SmStartSave(Owner)
  /\ cmd' = [cmd EXCEPT !.pc = IF sm'[Owner].err THEN "returned" ELSE "start"]
  /\ UNCHANGED <<engineVars, ana>>

\* 98-100: pomodoro.Start(); the command returns when it fails
CmdStart ==
  /\ cmd.pc = "start"
  /\ StartLock(Owner)
  /\ cmd' = [cmd EXCEPT !.pc = IF ctl'[Owner].err THEN "returned" ELSE "loop",
                         !.starts = @ + 1]
  /\ UNCHANGED <<logVars, ana>>

\* 107-109: a signal is received and pomodoro.Stop() is called
CmdSignal ==
  /\ cmd.pc = "loop"
  /\ StopLock(Owner)
  /\ cmd' = [cmd EXCEPT !.pc = "finish", !.stops = @ + 1]
  /\ UNCHANGED <<logVars, ana>>

\* 114-122: the command's ticker fires; State() is read, and Idle leads to
\* Finish without a call of Stop()
CmdPoll ==
  /\ ~panicked
  /\ cmd.pc = "loop"
  /\ ctl[Owner].pc = "idle"
  /\ Accessor
  /\ cmd' = [cmd EXCEPT !.pc = IF state = StateIdle THEN "finish" ELSE "loop",
                         !.seen = state]
  /\ UNCHANGED <<config, state, remaining, cycles, workSessions, ticker,
                 tickerQuit, gor, ctl, notified, panicked, pausedAt,
                 pausedFrom, ticked>>
  /\ UNCHANGED <<logVars, ana>>

\* 110-113, 118-121: sm.Finish(), and the return
CmdFinish ==
  /\ ~panicked
  /\ cmd.pc = "finish"
  /\ ctl[Owner].pc = "idle"
  /\ SmFinish(Owner)
  /\ cmd' = [cmd EXCEPT !.pc = IF sm'[Owner].pc = "FinishSave"
                                 THEN "finishSave" ELSE "returned",
                         !.finishes = @ + 1]
  /\ UNCHANGED <<engineVars, ana>>

CmdFinishSave ==
  /\ ~panicked
  /\ cmd.pc = "finishSave"
  /\ SmFinishSave(Owner)
  /\ cmd' = [cmd EXCEPT !.pc = "returned"]
  /\ UNCHANGED <<engineVars, ana>>

NextCmd ==
  \/ \E task \in Labels \cup {""} : CmdSmStart(task)
  \/ CmdSmStartSave
  \/ CmdStart
  \/ (StartCb(Owner) /\ UNCHANGED <<logVars, cmd, ana>>)
  \/ (StartTicker(Owner) /\ UNCHANGED <<logVars, cmd, ana>>)
  \/ (StartGo(Owner) /\ UNCHANGED <<logVars, cmd, ana>>)
  \/ CmdSignal
  \/ (StopCb(Owner) /\ UNCHANGED <<logVars, cmd, ana>>)
  \/ CmdPoll
  \/ CmdFinish
  \/ CmdFinishSave
  \/ \E r \in BagToSet(gor) : GRecv(r) /\ UNCHANGED <<logVars, cmd, ana>>
  \/ \E r \in BagToSet(gor) : GTick(r) /\ UNCHANGED <<logVars, cmd, ana>>
  \/ \E r \in BagToSet(gor) : GOnTick(r) /\ UNCHANGED <<logVars, cmd, ana>>
  \/ \E r \in BagToSet(gor) : GComplete(r) /\ UNCHANGED <<logVars, cmd, ana>>
  \/ \E r \in BagToSet(gor) : GCsCb(r) /\ UNCHANGED <<logVars, cmd, ana>>
  \/ \E r \in BagToSet(gor) : GCsTicker(r) /\ UNCHANGED <<logVars, cmd, ana>>
  \/ \E r \in BagToSet(gor) : GCsGo(r) /\ UNCHANGED <<logVars, cmd, ana>>

\* one run of the pomodoro command on a new log file
SpecCmd == Init /\ [][NextCmd]_vars

\* ----------------------------- analytics (analytics.go), pure functions
\* 60, 63: t.Truncate(hoursInDay * time.Hour) rounds the absolute time down
\* to a multiple of 24 hours since the zero time, whatever the location of t
Truncate(t) == t - (t % DayLen)

\* q without its i-th element
Remove(q, i) == SubSeq(q, 1, i - 1) \o SubSeq(q, i + 1, Len(q))

\* 55-57: sort.Slice, latest start first
RECURSIVE SortDesc(_)
SortDesc(q) ==
  IF q = <<>> THEN <<>>
  ELSE LET i == CHOOSE i \in 1..Len(q) :
                  \A j \in 1..Len(q) : q[i].StartTime >= q[j].StartTime
       IN <<q[i]>> \o SortDesc(Remove(q, i))

\* 62-70: the loop over sorted[1:], from index i with the date and the
\* count reached so far
RECURSIVE Walk(_, _, _, _)
Walk(sorted, i, currentDate, consecutiveDays) ==
  IF i > Len(sorted) THEN consecutiveDays
  ELSE LET sessionDate == Truncate(sorted[i].StartTime)
       IN IF currentDate - sessionDate = DayLen
            THEN Walk(sorted, i + 1, sessionDate, consecutiveDays + 1)
            ELSE IF currentDate - sessionDate > DayLen
                   THEN consecutiveDays
                   ELSE Walk(sorted, i + 1, currentDate, consecutiveDays)

\* 48-73
CalculateConsecutiveDays(ssns) ==
  IF Len(ssns) = 0 THEN 0
  ELSE LET sorted == SortDesc(ssns)
       IN Walk(sorted, 2, Truncate(sorted[1].StartTime), 1)

\* the offsets from UTC of the location in which the times were taken, in
\* clock units (half days)
Zones == {0, 1}

\* the lists of sessions handed to the function: any order, any number of
\* sessions on a day
StartTimes == 1..((MaxDay + 1) * DayLen - 1)

SessionAt(t) == [Task |-> "a", StartTime |-> t, EndTime |-> t]

SessionLists ==
  UNION {[1..n -> {SessionAt(t) : t \in StartTimes}] : n \in 0..MaxSessions}

\* part_000 236: the show command prints CalculateConsecutiveDays(ssns)
AnConsecutiveDays(ssns, z) ==
  /\ ana' = [fn |-> "CalculateConsecutiveDays", in |-> ssns, zone |-> z,
             out |-> CalculateConsecutiveDays(ssns)]
  /\ UNCHANGED <<engineVars, logVars, cmd>>

NextAnalytics ==
  \E ssns \in SessionLists : \E z \in Zones : AnConsecutiveDays(ssns, z)

\* the analytics functions on every list of sessions
SpecAnalytics == Init /\ [][NextAnalytics]_vars

\* ------------------------------------ the totals of the show command
\* time.Duration is an int64 count of nanoseconds; the model keeps the
\* two's-complement arithmetic in a narrower word
DurationBits == 6
MinDuration == 0 - 2 ^ (DurationBits - 1)
MaxDuration == 2 ^ (DurationBits - 1) - 1

\* int64 addition wraps around
WrapAdd(x, y) ==
  ((x + y - MinDuration) % (2 ^ DurationBits)) + MinDuration

\* Time.Sub: the difference, or the minimum (maximum) Duration when the
\* difference does not fit, as between the zero time and a time of today
Sub(t, u) ==
  IF t = ZeroTime /\ u # ZeroTime THEN MinDuration
  ELSE IF u = ZeroTime /\ t # ZeroTime THEN MaxDuration
  ELSE t - u

\* 26-31: the loop from index i with the total reached so far
RECURSIVE TotalFrom(_, _, _, _)
TotalFrom(ssns, task, i, totalDuration) ==
  IF i > Len(ssns) THEN totalDuration
  ELSE LET ssn == ssns[i]
       IN IF task = "" \/ ssn.Task = task
            THEN TotalFrom(ssns, task, i + 1,
                           WrapAdd(totalDuration,
                                   Sub(ssn.EndTime, ssn.StartTime)))
            ELSE TotalFrom(ssns, task, i + 1, totalDuration)

\* 24-33
CalculateTotalDuration(ssns, task) == TotalFrom(ssns, task, 1, 0)

\* part_000 165-218: the show command reads the log and, when it holds a
\* session, prints CalculateTotalDuration(ssns, task)
AnTotalDuration(task) ==
  /\ \A c \in SmCallers : sm[c].pc = "idle"
  /\ ~GetAllErr(file)
  /\ Len(GetAll(file)) > 0
  /\ ana' = [fn |-> "CalculateTotalDuration", in |-> GetAll(file),
             task |-> task, out |-> CalculateTotalDuration(GetAll(file), task)]
  /\ UNCHANGED <<engineVars, logVars, cmd>>

NextShow ==
  \/ (ClockAdvance /\ UNCHANGED <<engineVars, cmd, ana>>)
  \/ \E c \in SmCallers : \E task \in Labels :
       SmStart(c, task) /\ UNCHANGED <<engineVars, cmd, ana>>
  \/ \E c \in SmCallers : SmStartSave(c) /\ UNCHANGED <<engineVars, cmd, ana>>
  \/ \E c \in SmCallers : SmFinish(c) /\ UNCHANGED <<engineVars, cmd, ana>>
  \/ \E c \in SmCallers : SmFinishSave(c) /\ UNCHANGED <<engineVars, cmd, ana>>
  \/ \E task \in Labels \cup {""} : AnTotalDuration(task)

\* Start, Finish and the show command on a new log file
SpecShow == Init /\ [][NextShow]_vars

\* ------------------------------------ two processes on one log file
\* Two gotrack processes, each with its own SessionManager and FileStorage on
\* the same path, call Start; a call is the read of the log (30) and, later,
\* the Save (44), and the steps of the two calls interleave freely.
Processes == {1, 2}

InitTwoProcesses ==
  /\ config \in PomodoroConfig
  /\ state = StateIdle
  /\ remaining = config.WorkDuration
  /\ cycles = 0
  /\ workSessions = 0
  /\ ticker = Nil
  /\ tickerQuit = Nil
  /\ gor = EmptyBag
  /\ ctl = [t \in CtlThreads |-> CtlIdle]
  /\ notified = "none"
  /\ panicked = FALSE
  /\ mu = FALSE
  /\ pausedAt = NoRem
  /\ pausedFrom = "none"
  /\ ticked = FALSE
  /\ file = <<>>
  /\ now = 1
  /\ sm = [c \in Processes |-> SmIdle]
  /\ saved = <<>>
  /\ res = NoResult
  /\ CmdInit
  /\ AnaInit

NextTwoProcesses ==
  \/ (ClockAdvance /\ UNCHANGED <<engineVars, cmd, ana>>)
  \/ \E c \in Processes : \E task \in Labels \cup {""} :
       SmStart(c, task) /\ UNCHANGED <<engineVars, cmd, ana>>
  \/ \E c \in Processes : SmStartSave(c) /\ UNCHANGED <<engineVars, cmd, ana>>
  \/ \E c \in Processes : SmFinish(c) /\ UNCHANGED <<engineVars, cmd, ana>>
  \/ \E c \in Processes : SmFinishSave(c) /\ UNCHANGED <<engineVars, cmd, ana>>

SpecTwoProcesses == InitTwoProcesses /\ [][NextTwoProcesses]_vars

\* ------------------------------------ the engine left to run after Start
\* Start() is called on a new engine whose configuration has AutoStartBreak
\* set; Pause() and Stop() are never called.
InitLive == Init /\ config.AutoStartBreak

NextLive ==
  \/ \E t \in CtlThreads : StartLock(t) /\ UNCHANGED <<logVars, cmd, ana>>
  \/ \E t \in CtlThreads : StartCb(t) /\ UNCHANGED <<logVars, cmd, ana>>
  \/ \E t \in CtlThreads : StartTicker(t) /\ UNCHANGED <<logVars, cmd, ana>>
  \/ \E t \in CtlThreads : StartGo(t) /\ UNCHANGED <<logVars, cmd, ana>>
  \/ \E r \in BagToSet(gor) : GRecv(r) /\ UNCHANGED <<logVars, cmd, ana>>
  \/ \E r \in BagToSet(gor) : GTick(r) /\ UNCHANGED <<logVars, cmd, ana>>
  \/ \E r \in BagToSet(gor) : GOnTick(r) /\ UNCHANGED <<logVars, cmd, ana>>
  \/ \E r \in BagToSet(gor) : GComplete(r) /\ UNCHANGED <<logVars, cmd, ana>>
  \/ \E r \in BagToSet(gor) : GCsCb(r) /\ UNCHANGED <<logVars, cmd, ana>>
  \/ \E r \in BagToSet(gor) : GCsTicker(r) /\ UNCHANGED <<logVars, cmd, ana>>
  \/ \E r \in BagToSet(gor) : GCsGo(r) /\ UNCHANGED <<logVars, cmd, ana>>

\* A call of Start() that has begun returns (81-86); a ticker that is not
\* stopped delivers its next tick (time.NewTicker, 160); a goroutine that can
\* run is run and a sync.Mutex that is free is granted (165-197, 203-244).
\* Whether Start() is called at all is left open.
Fairness ==
  /\ WF_vars(\E t \in CtlThreads : StartCb(t) /\ UNCHANGED <<logVars, cmd, ana>>)
  /\ WF_vars(\E t \in CtlThreads :
               StartTicker(t) /\ UNCHANGED <<logVars, cmd, ana>>)
  /\ WF_vars(\E t \in CtlThreads : StartGo(t) /\ UNCHANGED <<logVars, cmd, ana>>)
  /\ WF_vars(\E r \in BagToSet(gor) : GRecv(r) /\ UNCHANGED <<logVars, cmd, ana>>)
  /\ WF_vars(\E r \in BagToSet(gor) : GTick(r) /\ UNCHANGED <<logVars, cmd, ana>>)
  /\ WF_vars(\E r \in BagToSet(gor) :
               GOnTick(r) /\ UNCHANGED <<logVars, cmd, ana>>)
  /\ WF_vars(\E r \in BagToSet(gor) :
               GComplete(r) /\ UNCHANGED <<logVars, cmd, ana>>)
  /\ WF_vars(\E r \in BagToSet(gor) : GCsCb(r) /\ UNCHANGED <<logVars, cmd, ana>>)
  /\ WF_vars(\E r \in BagToSet(gor) :
               GCsTicker(r) /\ UNCHANGED <<logVars, cmd, ana>>)
  /\ WF_vars(\E r \in BagToSet(gor) : GCsGo(r) /\ UNCHANGED <<logVars, cmd, ana>>)

SpecLive == InitLive /\ [][NextLive]_vars /\ Fairness

Session ==
  [Task : Labels \cup {Replaced, ""}, StartTime : 0..MaxNow,
   EndTime : 0..MaxNow]

LogTypeOK ==
  /\ now \in 1..MaxNow
  /\ Len(file) <= MaxLog
  /\ \A i \in 1..Len(file) : Unmarshal(file[i]) \in Session
  /\ \A c \in SmCallers :
       /\ sm[c].pc \in {"idle", "StartSave", "FinishSave"}
       /\ sm[c].session \in Session
       /\ sm[c].err \in BOOLEAN

\* --------------------------------------------------------------- sanity
TypeOK ==
  /\ config \in PomodoroConfig
  /\ state \in State
  /\ remaining \in (0 - Tick * (MaxOverrun + MaxG))..MaxDur
  /\ cycles \in 0..(MaxCycles + MaxG)
  /\ workSessions = cycles
  /\ ticker \in {Nil, Made}
  /\ tickerQuit \in {Nil, Made}
  /\ IsABag(gor)
  /\ BagCardinality(gor) <= MaxG + 1
  /\ \A r \in BagToSet(gor) :
       r.pc \in {"go", "select", "lock", "onTick", "complete", "csCb",
                 "csTicker", "csGo", "nilTicker"}
  /\ (ticker = Nil) <=> (Held(gor) = {})
  /\ \A r, r2 \in Held(gor) : r.tstopped = r2.tstopped
  /\ (ticker = Nil) <=> (tickerQuit = Nil)
  /\ \A t \in DOMAIN ctl :
       ctl[t].pc \in {"idle", "StartCb", "StartTicker", "StartGo", "PauseCb",
                       "StopCb"}
  /\ panicked \in BOOLEAN
  /\ mu = FALSE

\* ----------------------------------------------------- claim vocabulary
Running == state \in {StateWorking, StateShortBreak, StateLongBreak}
Breaks == {StateShortBreak, StateLongBreak}

\* steps of the control thread t
StartFails(t) == ~ctl[t].err /\ ctl'[t].err
StartProceeds(t) == ctl[t].pc = "idle" /\ ctl'[t].pc = "StartCb"
StartReturns(t) == ctl[t].pc = "StartGo" /\ ctl'[t].pc = "idle"

\* steps of the goroutine in local state r
ProcessesTick(r) == GTick(r) /\ Running
Completes(r) == GComplete(r)

\* no tick handler is between the receipt of its tick and the end of the
\* completion that the tick triggers
NoneInFlight == \A r \in BagToSet(gor) : r.pc = "select"
NoControlCall == \A t \in DOMAIN ctl : ctl[t].pc = "idle"

C2_PauseResumeKeepsRemaining ==
  [][/\ (state' = StatePaused /\ pausedAt' # NoRem) => remaining' = pausedAt'
     /\ \A t \in CtlThreads :
          (StartReturns(t) /\ pausedAt # NoRem /\ ~ticked)
            => remaining' = pausedAt]_vars

\* C3: a Start() in phase Paused enters the phase that the Pause() suspended.
C3_ResumeSamePhase ==
  [][\A t \in CtlThreads :
       (StartProceeds(t) /\ state = StatePaused) => state' = pausedFrom]_vars

\* C4: no step of Stop() panics or fails, and from its locked section
\* until its return the phase is Idle and both counters are zero, whatever
\* the phase it was called in and however often it is called in a row.
C4_StopIdempotent ==
  /\ [](\A t \in CtlThreads :
         ctl[t].pc = "StopCb" =>
           /\ state = StateIdle
           /\ cycles = 0
           /\ workSessions = 0
           /\ ~ctl[t].err)
  /\ [][\A t \in CtlThreads :
         (StopLock(t) \/ StopCb(t)) => (panicked' = panicked)]_vars

\* a second Stop() in a row, after a completed cycle
C4_Witness ==
  \E t \in CtlThreads :
    ctl[t].pc = "StopCb" /\ notified = StateIdle /\ ticker = Nil
                         /\ gor = EmptyBag

\* C5: when the phase is Idle, no control call is in progress and no tick
\* handler is in flight, no ticker is armed and no tick goroutine exists.
C5_StopTerminatesTicking ==
  (state = StateIdle /\ NoControlCall /\ NoneInFlight)
    => (ticker = Nil /\ tickerQuit = Nil /\ gor = EmptyBag)

\* C6: at most one goroutine has a running ticker or an open quit channel,
\* and no goroutine processes a tick while the ticker of another goroutine
\* is the armed one.
C6_OneTickActivity ==
  [][/\ \A r \in BagToSet(gor') :
          (~r.tstopped \/ ~r.qclosed) =>
             /\ CopiesIn(r, gor') = 1
             /\ \A r2 \in BagToSet(gor') :
                  (~r2.tstopped \/ ~r2.qclosed) => r2 = r
     /\ \A r \in BagToSet(gor) :
          ProcessesTick(r) => (ticker = Nil \/ r.held)]_vars

\* C7: Remaining() is never negative.
C7_RemainingNonNegative == remaining >= 0

\* C8: the work-session counter counts the work phases completed since the
\* last Stop(); the step that enters a break leaves Working, makes the count
\* N = workSessions + 1, and enters LongBreak exactly when N is a multiple of
\* LongBreakInterval.
C8_LongBreakCadence ==
  [][/\ (state' \in Breaks /\ state' # state) =>
          /\ state = StateWorking
          /\ workSessions' = workSessions + 1
          /\ (state' = StateLongBreak
                <=> workSessions' % config.LongBreakInterval = 0)
     /\ workSessions' # workSessions =>
          \/ (state = StateWorking /\ state' \in Breaks)
          \/ (workSessions' = 0 /\ state' = StateIdle)]_vars

C8_Witness ==
  /\ state = StateLongBreak
  /\ config.LongBreakInterval = 2
  /\ workSessions = 2
  /\ notified = StateLongBreak

\* C9: the locked section of a phase completion, from Working: Cycles() + 1,
\* a break phase, the remaining time the configured duration of that break;
\* from a break: Working, the work duration, Cycles() unchanged.
C9_CompletionEffect ==
  [][\A r \in BagToSet(gor) : Completes(r) =>
       /\ state = StateWorking =>
            /\ cycles' = cycles + 1
            /\ state' \in Breaks
            /\ remaining' = IF state' = StateLongBreak THEN config.LongBreak
                            ELSE config.BreakDuration
       /\ state \in Breaks =>
            /\ state' = StateWorking
            /\ remaining' = config.WorkDuration
            /\ cycles' = cycles]_vars

\* the run of the example: work = 2 ticks, short break = 1 tick, interval 2,
\* auto-continue on, arrived in the long break after the second work phase
C9_Witness ==
  /\ config.WorkDuration = 2 * Tick
  /\ config.BreakDuration = Tick
  /\ config.LongBreakInterval = 2
  /\ config.AutoStartBreak
  /\ state = StateLongBreak
  /\ cycles = 2
  /\ remaining = config.LongBreak
  /\ notified = StateLongBreak

\* C10: a completion arms a new ticker exactly when the new phase is Working
\* or auto-continue is set; with auto-continue off, in a break phase and
\* with no control call in progress, no ticker is armed, and no step other
\* than a control call changes the phase, the remaining time or a counter.
C10_ParkedInBreak ==
  [][/\ \A r \in BagToSet(gor') :
          (r.pc = "csCb" /\ CopiesIn(r, gor') > CopiesIn(r, gor)) =>
            (r.as <=> (state' = StateWorking \/ config.AutoStartBreak))
     /\ \A r \in BagToSet(gor) :
          (GCsCb(r) /\ ~r.as) => UNCHANGED <<ticker, tickerQuit>>
     /\ (~config.AutoStartBreak /\ state \in Breaks /\ NoControlCall) =>
          /\ ticker = Nil
          /\ ctl' = ctl =>
               UNCHANGED <<state, remaining, cycles, workSessions>>]_vars

\* the engine is parked in a break: auto-continue off, a break phase, no
\* ticker, no tick goroutine, no control call in progress
ParkedBreak ==
  /\ ~config.AutoStartBreak
  /\ state \in Breaks
  /\ ticker = Nil
  /\ tickerQuit = Nil
  /\ gor = EmptyBag
  /\ NoControlCall

\* C11: parked in a break, the engine changes only by a control call, and a
\* Start() called then does not fail: it goes on to its notification and
\* to startTicker with the break and its remaining time kept.
C11_StartFromParkedBreak ==
  [][ParkedBreak =>
       /\ ctl' = ctl => UNCHANGED <<state, remaining, cycles, workSessions>>
       /\ \A t \in CtlThreads :
            StartLock(t) =>
              /\ ~ctl'[t].err
              /\ ctl'[t].pc = "StartCb"
              /\ state' = state
              /\ remaining' = remaining]_vars

\* the number of tick goroutines at the position p
CountAt(G, p) ==
  BagCardinality([r \in {x \in BagToSet(G) : x.pc = p} |-> G[r]])

\* C12: a tick processed in Idle or Paused changes neither the remaining
\* time, the phase nor a counter, delivers no notification and leaves no
\* goroutine on its way to a tick callback or a phase-change callback.
C12_IgnoredTick ==
  [][\A r \in BagToSet(gor) :
       (GTick(r) /\ state \in {StateIdle, StatePaused}) =>
         /\ UNCHANGED <<state, remaining, cycles, workSessions, notified>>
         /\ CountAt(gor', "onTick") = CountAt(gor, "onTick")
         /\ CountAt(gor', "complete") = CountAt(gor, "complete")
         /\ CountAt(gor', "csCb") = CountAt(gor, "csCb")]_vars

\* a tick was received and is about to be processed, in Paused
C12_Witness ==
  /\ state = StatePaused
  /\ \E r \in BagToSet(gor) : r.pc = "lock"
  /\ NoControlCall

\* C13: a tick processed in an active phase lowers the remaining time by
\* one tick and takes its goroutine to the tick callback with the new value
\* as argument; a goroutine reaches and leaves the tick callback only so,
\* one call per tick, also when the value is zero or below; and a goroutine
\* reaches completeSession, and from there its phase-change callback, only
\* from a tick callback whose argument was zero or below.
C13_TickCallback ==
  [][/\ \A r \in BagToSet(gor) :
          ProcessesTick(r) =>
            /\ remaining' = remaining - Tick
            /\ UNCHANGED <<state, cycles, workSessions, notified>>
            /\ \E r2 \in BagToSet(gor') :
                 /\ r2.pc = "onTick"
                 /\ r2.rem = remaining'
                 /\ CopiesIn(r2, gor') = CopiesIn(r2, gor) + 1
            /\ CountAt(gor', "onTick") = CountAt(gor, "onTick") + 1
            /\ CountAt(gor', "complete") = CountAt(gor, "complete")
     /\ CountAt(gor', "onTick") > CountAt(gor, "onTick") =>
          \E r \in BagToSet(gor) : ProcessesTick(r)
     /\ CountAt(gor', "onTick") < CountAt(gor, "onTick") =>
          /\ CountAt(gor', "onTick") = CountAt(gor, "onTick") - 1
          /\ \E r \in BagToSet(gor) : GOnTick(r)
     /\ CountAt(gor', "complete") > CountAt(gor, "complete") =>
          \E r \in BagToSet(gor) : GOnTick(r) /\ r.rem <= 0
     /\ \A r \in BagToSet(gor) :
          (GOnTick(r) /\ r.rem <= 0) =>
            /\ CountAt(gor', "complete") = CountAt(gor, "complete") + 1
            /\ UNCHANGED notified
     /\ CountAt(gor', "csCb") > CountAt(gor, "csCb") =>
          \E r \in BagToSet(gor) : GComplete(r)]_vars

\* the tick callback of a terminal tick has returned with a value below
\* zero, the completion has not begun
C13_Witness ==
  /\ state = StateWorking
  /\ remaining < 0
  /\ \E r \in BagToSet(gor) : r.pc = "complete"

\* C14: wherever a callback is about to be invoked, by Start, Pause, Stop
\* or a tick goroutine, the lock is free and, in a process that has not
\* panicked, the callback, which takes the lock to query the engine, can
\* run.
C14_CallbacksOutsideLock ==
  /\ \A t \in DOMAIN ctl :
       /\ ctl[t].pc = "StartCb" => (~mu /\ (~panicked => ENABLED StartCb(t)))
       /\ ctl[t].pc = "PauseCb" => (~mu /\ (~panicked => ENABLED PauseCb(t)))
       /\ ctl[t].pc = "StopCb" => (~mu /\ (~panicked => ENABLED StopCb(t)))
  /\ \A r \in BagToSet(gor) :
       /\ r.pc = "onTick" => (~mu /\ (~panicked => ENABLED GOnTick(r)))
       /\ r.pc = "csCb" => (~mu /\ (~panicked => ENABLED GCsCb(r)))

\* a tick callback and the callback of Stop are both about to be invoked
C14_Witness ==
  /\ \E r \in BagToSet(gor) : r.pc = "onTick"
  /\ \E t \in DOMAIN ctl : ctl[t].pc = "StopCb"

\* C15: the locked section of a successful Start() neither notifies nor
\* arms; the thread leaves it only by the callback, called with Working, the
\* phase that Start() set, and before any ticker is made; it leaves the
\* position after the callback only by the locked section of startTicker,
\* which makes the ticker and the channel, and that only by the go
\* statement; and when Start() returns the process has not panicked and the
\* engine holds a running ticker with its goroutine.
C15_StartNotifiesThenArms ==
  [][\A t \in DOMAIN ctl :
       /\ StartProceeds(t) =>
            /\ state' = StateWorking
            /\ ctl'[t].newState = StateWorking
            /\ UNCHANGED <<notified, ticker, tickerQuit, gor>>
       /\ (ctl[t].pc = "StartCb" /\ ctl'[t] # ctl[t]) =>
            /\ ctl'[t].pc = "StartTicker"
            /\ notified' = StateWorking
            /\ UNCHANGED <<ticker, tickerQuit, gor>>
       /\ (ctl[t].pc # "StartTicker" /\ ctl'[t].pc = "StartTicker") =>
            ctl[t].pc = "StartCb"
       /\ (ctl[t].pc = "StartTicker" /\ ctl'[t] # ctl[t]) =>
            /\ ctl'[t].pc = "StartGo"
            /\ UNCHANGED notified
            /\ ticker' = Made
            /\ tickerQuit' = Made
       /\ (ctl[t].pc = "StartGo" /\ ctl'[t] # ctl[t]) =>
            /\ StartReturns(t)
            /\ ~ctl'[t].err
            /\ ~panicked'
            /\ UNCHANGED notified
            /\ ticker' = Made
            /\ tickerQuit' = Made
            /\ \E r \in BagToSet(gor') :
                 r.held /\ r.pc = "select" /\ ~r.tstopped /\ ~r.qclosed]_vars

\* a Start() that has passed its check and has not returned
InStart(t) == ctl[t].pc \in {"StartCb", "StartTicker", "StartGo"}

\* C16: of two Start() calls in progress at the same time only one passes
\* the check: the other, whose locked section runs while the first has not
\* returned, gets the error, changes nothing and makes no ticker; and at
\* most one goroutine has a running ticker.
C16_OneStartWins ==
  [][/\ \A t, u \in DOMAIN ctl : (t # u /\ InStart(t)') => ~InStart(u)'
     /\ \A t, u \in DOMAIN ctl :
          (t # u /\ InStart(t) /\ StartLock(u)) =>
            /\ ctl'[u].err
            /\ ctl'[u].pc = "idle"
            /\ UNCHANGED <<state, remaining, cycles, workSessions, notified,
                           ticker, tickerQuit, gor>>
     /\ \A r, r2 \in BagToSet(gor') :
          (~r.tstopped /\ ~r2.tstopped) =>
            (r = r2 /\ CopiesIn(r, gor') = 1)]_vars

\* C17: a Pause() in Idle or Paused changes nothing and leads to no
\* callback; in Working, ShortBreak or LongBreak it sets Paused and keeps
\* the remaining time and the counters, and the thread goes through the
\* callback once, with Paused; no other step leads to that callback.
C17_PauseEffect ==
  [][\A t \in DOMAIN ctl :
       /\ (PauseLock(t) /\ state \in {StateIdle, StatePaused}) =>
            /\ UNCHANGED <<state, remaining, cycles, workSessions, notified,
                           ticker, tickerQuit, gor>>
            /\ ctl'[t].pc = "idle"
       /\ (PauseLock(t) /\ Running) =>
            /\ state' = StatePaused
            /\ remaining' = remaining
            /\ UNCHANGED <<cycles, workSessions, notified>>
            /\ ctl'[t].pc = "PauseCb"
       /\ (ctl[t].pc # "PauseCb" /\ ctl'[t].pc = "PauseCb") =>
            (PauseLock(t) /\ Running)
       /\ (ctl[t].pc = "PauseCb" /\ ctl'[t] # ctl[t]) =>
            /\ notified' = StatePaused
            /\ ctl'[t].pc = "idle"
            /\ UNCHANGED <<state, remaining, cycles, workSessions>>]_vars

\* Pause() has returned from a break, with the break's remaining time
C17_Witness ==
  /\ NoControlCall
  /\ state = StatePaused
  /\ notified = StatePaused
  /\ pausedFrom = StateShortBreak
  /\ remaining = pausedAt
  /\ remaining = config.BreakDuration

\* C18: the locked section of a Start() in Idle sets Working and the
\* configured work duration, whatever the remaining time was, and goes on
\* without error.
C18_StartFromIdle ==
  [][\A t \in DOMAIN ctl :
       (StartLock(t) /\ state = StateIdle) =>
         /\ state' = StateWorking
         /\ remaining' = config.WorkDuration
         /\ UNCHANGED <<cycles, workSessions>>
         /\ ~ctl'[t].err
         /\ ctl'[t].pc = "StartCb"]_vars

\* Start() after a Stop() that came in the middle of a phase: the last
\* notification is the one of Stop(), and a goroutine of the stopped run
\* still holds a remaining time below the work duration
C18_Witness ==
  /\ \E t \in DOMAIN ctl : ctl[t].pc = "StartCb"
  /\ notified = StateIdle
  /\ state = StateWorking
  /\ remaining = config.WorkDuration
  /\ \E r \in BagToSet(gor) :
       r.pc = "onTick" /\ r.qclosed /\ r.rem > 0 /\ r.rem < config.WorkDuration

\* no Start() has passed its check and no Stop() was called
Fresh == notified = "none" /\ NoControlCall

\* C19: until the first Start() the engine is in Idle with no completed
\* cycle, the configured work duration as remaining time, no ticker, no
\* quit channel and no tick goroutine.
C19_NewEngine ==
  Fresh =>
    /\ state = StateIdle
    /\ cycles = 0
    /\ workSessions = 0
    /\ remaining = config.WorkDuration
    /\ ticker = Nil
    /\ tickerQuit = Nil
    /\ gor = EmptyBag

\* the engine as New() returns it
C19_Witness ==
  /\ Fresh
  /\ state = StateIdle
  /\ remaining = config.WorkDuration
  /\ \A t \in DOMAIN ctl : ~ctl[t].err

\* the records of the log whose end timestamp is zero
OpenRecords(f) == {i \in 1..Len(f) : Unmarshal(f[i]).EndTime = ZeroTime}

\* C20: whatever Start and Finish calls were made, the log holds at most
\* one session whose end timestamp is zero.
C20_AtMostOneOpen == Cardinality(OpenRecords(file)) <= 1

\* the most recent record of the log has a zero end timestamp
LastRecordOpen == Len(file) > 0 /\ Len(file) \in OpenRecords(file)

\* C21: a Start with the empty task fails in every state of the log, and a
\* Start on a log whose last record is open fails; neither reaches Save nor
\* changes the file. Any other Start goes on to Save, which appends exactly
\* one record, and that record reads back as the given task, the clock
\* reading as start, no end.
C21_StartEffect ==
  [][\A c \in SmCallers :
       /\ \A task \in Labels \cup {""} :
            (SmStart(c, task) /\ (task = "" \/ LastRecordOpen)) =>
              /\ sm'[c].err
              /\ sm'[c].pc = "idle"
              /\ sm'[c].session = NoSession
              /\ file' = file
       /\ \A task \in Labels :
            (SmStart(c, task) /\ ~LastRecordOpen) =>
              /\ sm'[c].pc = "StartSave"
              /\ sm'[c].session.Task = task
              /\ file' = file
       /\ (sm[c].pc # "StartSave" /\ sm'[c].pc = "StartSave") =>
            \E task \in Labels : SmStart(c, task) /\ ~LastRecordOpen
       /\ (sm[c].pc = "StartSave" /\ sm'[c] # sm[c]) =>
            /\ Len(file') = Len(file) + 1
            /\ SubSeq(file', 1, Len(file)) = file
            /\ Unmarshal(file'[Len(file')]) = sm[c].session
            /\ sm[c].session.Task \in Labels
            /\ sm[c].session.StartTime # ZeroTime
            /\ sm[c].session.EndTime = ZeroTime
            /\ ~sm'[c].err
            /\ sm'[c].pc = "idle"
            /\ sm'[c].session = sm[c].session]_vars

\* C22: a Finish on an empty log or on a log whose last record is closed
\* fails and leaves the file as it was; any other Finish goes on to Save,
\* which appends one record with the task and the start of the last record
\* and an end timestamp later than that start.
C22_FinishEffect ==
  [][\A c \in SmCallers :
       /\ (SmFinish(c) /\ ~LastRecordOpen) =>
            /\ sm'[c].err
            /\ sm'[c].pc = "idle"
            /\ file' = file
       /\ (SmFinish(c) /\ LastRecordOpen) =>
            /\ sm'[c].pc = "FinishSave"
            /\ file' = file
       /\ (sm[c].pc = "FinishSave" /\ sm'[c] # sm[c]) =>
            /\ Len(file') = Len(file) + 1
            /\ SubSeq(file', 1, Len(file)) = file
            /\ Unmarshal(file'[Len(file')]).Task = Unmarshal(file[Len(file)]).Task
            /\ Unmarshal(file'[Len(file')]).StartTime =
                 Unmarshal(file[Len(file)]).StartTime
            /\ Unmarshal(file'[Len(file')]).EndTime >
                 Unmarshal(file'[Len(file')]).StartTime]_vars

\* f is the beginning of g
IsPrefix(f, g) == Len(f) <= Len(g) /\ SubSeq(g, 1, Len(f)) = f

\* C23: no step changes, reorders or removes a line of the file; a Save
\* that returns no error adds exactly one line at the end; and a GetAll
\* returns, without error, the sessions saved so far, in the order of
\* their Saves.
C23_AppendOnly ==
  [][/\ IsPrefix(file, file')
     /\ (res'.op = "Save" /\ res'.err = "none" /\ res' # res) =>
          Len(file') = Len(file) + 1
     /\ FsGetAll => (res'.err = "none" /\ res'.out = saved')]_vars

\* C24: a GetLast returns ErrNoSessions and no session when nothing was
\* saved, and otherwise, without error, the session of the latest Save.
C24_GetLast ==
  [][FsGetLast =>
       IF Len(saved') = 0
         THEN res'.err = "ErrNoSessions" /\ res'.out = <<>>
         ELSE res'.err = "none" /\ res'.out = <<saved'[Len(saved')]>>]_vars

\* C25: a Save of a nil session, of a session with the empty task or of a
\* session with the zero start time returns an error and leaves the file
\* as it was.
C25_SaveRejects ==
  [][\A s \in SaveInputs :
       (FsSave(s) /\ (\/ s = NilSession
                      \/ s.Task = ""
                      \/ s.StartTime = ZeroTime)) =>
         /\ res'.op = "Save"
         /\ res'.err = "error"
         /\ file' = file]_vars

\* a Save was rejected on a log that holds a record, and the record is
\* still all the log holds
C25_Witness ==
  /\ res.op = "Save"
  /\ res.err = "error"
  /\ Len(file) = 1
  /\ file = <<Marshal(saved[1])>>

\* the records of the log that started on the calendar day of the clock
StartedToday(f, t) ==
  LET Today(x) == /\ StartOfDay(t) <= x.StartTime
                  /\ x.StartTime < StartOfDay(t) + DayLen
  IN SelectSeq([i \in 1..Len(f) |-> Unmarshal(f[i])], Today)

\* C26: GetTodaySessions returns, without error, exactly the logged
\* sessions whose start lies in [today 00:00, tomorrow 00:00).
C26_TodaySessions ==
  [][SmGetTodaySessions =>
       (res'.err = "none" /\ res'.out = StartedToday(file', now'))]_vars

\* the closed records of the log
ClosedRecords(f) == {i \in 1..Len(f) : Unmarshal(f[i]).EndTime # ZeroTime}

\* C27: the command calls Start() at most once; when it has returned after
\* that call, Stop() was called exactly once, Finish() was called exactly
\* once, and the log holds the session of the command as finished.
C27_CommandStopsAndFinishes ==
  /\ cmd.starts <= 1
  /\ (cmd.pc = "returned" /\ cmd.starts = 1) =>
       /\ cmd.stops = 1
       /\ cmd.finishes = 1
       /\ Cardinality(ClosedRecords(file)) = 1

\* the calendar day on which a time lies, in a location at offset z
CalendarDay(t, z) == (t + z) \div DayLen

\* the calendar days on which the sessions of a list start
DaysOf(ssns, z) == {CalendarDay(ssns[i].StartTime, z) : i \in 1..Len(ssns)}

\* the length of the run of consecutive days that ends at the last day of D
RunAtEnd(D) ==
  LET d == CHOOSE x \in D : \A y \in D : y <= x
  IN CHOOSE k \in 1..(d + 1) :
       /\ \A j \in 0..(k - 1) : (d - j) \in D
       /\ (d - k) \notin D

\* C28: CalculateConsecutiveDays returns 0 for the empty list and otherwise
\* the length of the run of consecutive calendar days that ends at the day
\* of the most recent session.
C28_ConsecutiveDays ==
  (ana.fn = "CalculateConsecutiveDays") =>
    ana.out = IF Len(ana.in) = 0 THEN 0
              ELSE RunAtEnd(DaysOf(ana.in, ana.zone))

\* C29: whenever the lock is free, so that an accessor or a control
\* operation can take it, an engine in Working, ShortBreak or LongBreak has
\* a remaining time above zero.
C29_AtomicCompletion == (~mu /\ Running) => remaining > 0

\* C30: with AutoStartBreak set, a fair tick source and no Pause() or Stop()
\* after a Start() that succeeded, a work phase is followed by a break, a
\* break by a work phase, and the count of cycles reaches every value up to
\* the bound at which the model stops delivering ticks.
C30_NoMissedTransition ==
  /\ (state = StateWorking /\ cycles < MaxCycles) ~> (state \in Breaks)
  /\ (state \in Breaks /\ cycles < MaxCycles) ~> (state = StateWorking)
  /\ \A n \in 1..MaxCycles : Running ~> (cycles >= n)

\* C30 witness: with AutoStartBreak set, the work phases were completed one
\* after the other up to the bound, each break in between having run out
C30_Witness ==
  /\ config.AutoStartBreak
  /\ cycles = MaxCycles
  /\ state \in Breaks
  /\ notified \in Breaks
  /\ ~panicked

\* two open records next to each other in the log
TwoOpenInARow(f) ==
  \E i \in 1..(Len(f) - 1) :
    /\ Unmarshal(f[i]).EndTime = ZeroTime
    /\ Unmarshal(f[i + 1]).EndTime = ZeroTime

\* C31: with two processes calling Start and Finish on one log in any
\* interleaving, the log never holds two open records appended one after
\* the other.
C31_NoOverlap == ~TwoOpenInARow(file)

\* C32: the count of cycles increases and one active phase is followed by
\* the next only in a state whose remaining time is zero or below.
C32_CompletionOnlyAtZero ==
  [][(cycles' > cycles \/ (Running /\ Running' /\ state' # state))
       => remaining <= 0]_vars

\* no control operation and no completion has committed a phase whose
\* notification is still to be delivered
NoPendingNotification ==
  /\ \A t \in DOMAIN ctl : ctl[t].pc \notin {"StartCb", "PauseCb", "StopCb"}
  /\ \A r \in BagToSet(gor) : r.pc # "csCb"

\* C33: once every committed phase change has been notified, the last
\* notification delivered carries the phase the engine is in.
C33_NotificationOrder ==
  (NoPendingNotification /\ notified # "none") => notified = state

\* a Stop() commits its transition
StopProceeds(t) == ctl[t].pc = "idle" /\ ctl'[t].pc = "StopCb"

C35_CountersAgree ==
  /\ cycles = workSessions
  /\ cycles >= 0
  /\ workSessions >= 0
  /\ (state = StateIdle) => (cycles = 0 /\ workSessions = 0)

\* C35 witness: work phases were completed up to the bound and both counts
\* stand at it
C35_Witness ==
  /\ cycles = MaxCycles
  /\ workSessions = MaxCycles
  /\ state \in Breaks

\* the records written by the calls that succeeded are, in turn, an open
\* one (a Start) and a closed one (a Finish), beginning with an open one
Alternates(h) ==
  \A i \in 1..Len(h) : (h[i].EndTime = ZeroTime) <=> (i % 2 = 1)

\* C36: in a sequential run of Start and Finish calls the calls that succeed
\* alternate, beginning with a Start; a Start with a task succeeds exactly
\* when the log is empty or its last record is closed, a Finish exactly when
\* the last record is open, and the record a Finish appends has the task and
\* the start time of the record it closes.
C36_StrictAlternation ==
  /\ []Alternates(saved)
  /\ [][\A c \in SmCallers :
         /\ \A task \in Labels :
              SmStart(c, task) =>
                ((sm'[c].pc = "StartSave") <=> ~LastRecordOpen)
         /\ SmStartSave(c) => ~sm'[c].err
         /\ SmFinish(c) => ((sm'[c].pc = "FinishSave") <=> LastRecordOpen)
         /\ SmFinishSave(c) =>
              /\ ~sm'[c].err
              /\ Len(file') = Len(file) + 1
              /\ Unmarshal(file[Len(file)]).EndTime = ZeroTime
              /\ Unmarshal(file'[Len(file')]).EndTime # ZeroTime
              /\ Unmarshal(file'[Len(file')]).Task =
                   Unmarshal(file[Len(file)]).Task
              /\ Unmarshal(file'[Len(file')]).StartTime =
                   Unmarshal(file[Len(file)]).StartTime]_vars

\* the sum of end - start over the finished sessions of ssns from index i
\* on, of the given task or, with the empty filter, of every task
RECURSIVE FinishedSum(_, _, _)
FinishedSum(ssns, task, i) ==
  IF i > Len(ssns) THEN 0
  ELSE LET ssn == ssns[i]
           counts == ssn.EndTime # ZeroTime /\ (task = "" \/ ssn.Task = task)
       IN (IF counts THEN ssn.EndTime - ssn.StartTime ELSE 0)
            + FinishedSum(ssns, task, i + 1)

\* C37: on the list GetAll returns after Start and Finish calls,
\* CalculateTotalDuration is the sum of end - start over the finished
\* sessions that pass the filter, an open record adding nothing.
C37_TotalDuration ==
  [][\A task \in Labels \cup {""} :
       AnTotalDuration(task) =>
         ana'.out = FinishedSum(GetAll(file), task, 1)]_vars

\* a go statement of startTicker, in Start() or in a completion
GoStep ==
  \/ \E t \in DOMAIN ctl : StartReturns(t)
  \/ \E r \in BagToSet(gor) : GCsGo(r)

====
